---------------------------- MODULE Spec2Model ----------------------------
(***************************************************************************)
(* PubMed Relevance Ranker (src/app.py): affiliation tokenising, the       *)
(* additive scorer, the batch loop of the "Run PubMed Search" handler and   *)
(* the summary tables computed from the scored records.                     *)
(*                                                                          *)
(* A Python str is a sequence of one-character strings, so that splitting, *)
(* whitespace collapsing, case folding, substring search and the regular   *)
(* expressions of the source are computed, not assumed.                     *)
(***************************************************************************)
EXTENDS Naturals, Integers, Sequences, FiniteSets, TLC

VARIABLES
    pc,                   \* position in the script / in a function call
    journals,             \* src/app.py:23
    institutions,         \* src/app.py:30
    summary_institutions, \* src/app.py:89
    hot_keywords,         \* src/app.py:95
    raw_aff,              \* argument of split_affiliations (aff_text, line 223)
    aff_parts,            \* result of split_affiliations (line 224)
    art,                  \* the PubmedArticle element being scored
    scored,               \* (score, reason) returned by score_article (line 286)
    id_list,              \* number of PMIDs ESearch returned (line 189)
    response,             \* EFetch response: "None" or "content" (lines 198-206)
    root,                 \* the PubmedArticle elements of the parsed XML (line 213)
    visited,              \* how many elements the for loop has taken (line 214)
    parsed_ok,            \* line 208, 307
    parsed_fail,          \* line 208, 309
    records,              \* line 209, 288
    df,                   \* line 313
    messages,             \* st.error / st.warning / st.success calls, in order
    tables                \* the summary counters of lines 335-388

vars == <<pc, journals, institutions, summary_institutions, hot_keywords,
          raw_aff, aff_parts, art, scored, id_list, response, root, visited,
          parsed_ok, parsed_fail, records, df, messages, tables>>

-----------------------------------------------------------------------------
(* Characters and str methods                                               *)

UpperCase == <<"A","B","C","D","E","F","G","H","I","J","K","L","M",
               "N","O","P","Q","R","S","T","U","V","W","X","Y","Z">>
LowerCase == <<"a","b","c","d","e","f","g","h","i","j","k","l","m",
               "n","o","p","q","r","s","t","u","v","w","x","y","z">>
UpperSet == {UpperCase[i] : i \in 1..26}
LowerSet == {LowerCase[i] : i \in 1..26}
DigitSet == {"0","1","2","3","4","5","6","7","8","9"}

\* \s of the re module, restricted to the whitespace the inputs use
IsSpace(c) == c \in {" ", "\t", "\n"}
\* \d
IsDigit(c) == c \in DigitSet
\* \w
IsWordChar(c) == c \in UpperSet \cup LowerSet \cup DigitSet \cup {"_"}

char_lower(c) ==
    IF c \in UpperSet THEN LowerCase[CHOOSE i \in 1..26 : UpperCase[i] = c] ELSE c

RECURSIVE str_lower(_)
str_lower(s) ==
    IF s = <<>> THEN <<>> ELSE <<char_lower(Head(s))>> \o str_lower(Tail(s))

RECURSIVE lstrip(_)
lstrip(s) ==
    IF s # <<>> /\ IsSpace(Head(s)) THEN lstrip(Tail(s)) ELSE s

RECURSIVE rstrip(_)
rstrip(s) ==
    IF s # <<>> /\ IsSpace(s[Len(s)]) THEN rstrip(SubSeq(s, 1, Len(s) - 1)) ELSE s

str_strip(s) == rstrip(lstrip(s))

\* re.sub(r"\s+", " ", s): every maximal run of whitespace becomes one space
RECURSIVE re_sub_ws(_)
re_sub_ws(s) ==
    IF s = <<>> THEN <<>>
    ELSE IF IsSpace(Head(s)) THEN <<" ">> \o re_sub_ws(lstrip(Tail(s)))
    ELSE <<Head(s)>> \o re_sub_ws(Tail(s))

\* sub in s
str_in(sub, s) ==
    \E i \in 1..(Len(s) - Len(sub) + 1) : SubSeq(s, i, i + Len(sub) - 1) = sub

\* s.split(sep) for a non-empty separator
RECURSIVE str_split(_, _)
str_split(s, sep) ==
    LET n == Len(sep)
        hits == {i \in 1..(Len(s) - n + 1) : SubSeq(s, i, i + n - 1) = sep}
    IN  IF hits = {} THEN <<s>>
        ELSE LET i == CHOOSE h \in hits : \A g \in hits : h <= g
             IN  <<SubSeq(s, 1, i - 1)>> \o str_split(SubSeq(s, i + n, Len(s)), sep)

\* sep.join(parts)
RECURSIVE str_join(_, _)
str_join(parts, sep) ==
    IF parts = <<>> THEN <<>>
    ELSE IF Len(parts) = 1 THEN parts[1]
    ELSE parts[1] \o sep \o str_join(Tail(parts), sep)

\* list(dict.fromkeys(xs)): first occurrences, in order
RECURSIVE dict_fromkeys(_)
dict_fromkeys(xs) ==
    IF xs = <<>> THEN <<>>
    ELSE LET front == dict_fromkeys(SubSeq(xs, 1, Len(xs) - 1))
             last  == xs[Len(xs)]
         IN  IF \E i \in 1..Len(front) : front[i] = last THEN front
             ELSE Append(front, last)

\* re.fullmatch(r"\d+", s)
fullmatch_digits(s) == s # <<>> /\ \A i \in 1..Len(s) : IsDigit(s[i])

\* \b at the gap after the k-th character of s (k = 0: before the first)
word_boundary(s, k) ==
    LET before == k >= 1 /\ k <= Len(s) /\ IsWordChar(s[k])
        after  == k + 1 >= 1 /\ k + 1 <= Len(s) /\ IsWordChar(s[k + 1])
    IN  before # after

\* re.search(rf"\b{re.escape(inst)}\b", s)
search_whole_word(inst, s) ==
    \E i \in 1..(Len(s) - Len(inst) + 1) :
        /\ SubSeq(s, i, i + Len(inst) - 1) = inst
        /\ word_boundary(s, i - 1)
        /\ word_boundary(s, i + Len(inst) - 1)

-----------------------------------------------------------------------------
(* Configuration lists, lines 23, 30, 89, 95:                              *)
(* [x.strip().lower() for x in input.splitlines() if x.strip()]             *)

RECURSIVE config_list(_)
config_list(lines) ==
    IF lines = <<>> THEN <<>>
    ELSE LET x == Head(lines)
         IN  IF str_strip(x) # <<>>
             THEN <<str_lower(str_strip(x))>> \o config_list(Tail(lines))
             ELSE config_list(Tail(lines))

-----------------------------------------------------------------------------
(* Utility functions, lines 100-125                                         *)

normalize_text(text) == str_lower(str_strip(re_sub_ws(text)))

INSTITUTION_KEYWORDS == <<
    <<"u","n","i","v">>,
    <<"u","n","i","v","e","r","s","i","t","y">>,
    <<"h","o","s","p","i","t","a","l">>,
    <<"c","l","i","n","i","c">>,
    <<"i","n","s","t","i","t","u","t","e">>,
    <<"c","o","l","l","e","g","e">>,
    <<"c","e","n","t","e","r">>,
    <<"c","e","n","t","r","e">>,
    <<"s","c","h","o","o","l">>,
    <<"d","e","p","a","r","t","m","e","n","t">>,
    <<"l","a","b","o","r","a","t","o","r","y">>,
    <<"l","a","b">> >>

\* line 114: len(text) < 5
MinPartLen == 5

any_in(list, text) == \E i \in 1..Len(list) : str_in(list[i], text)

\* keep_part without lines 116-120: every long, non-numeric part is kept
keep_part_any_long_text(text, institution_list) ==
    ~(Len(text) < MinPartLen \/ fullmatch_digits(text))

\* lines 113-120: the loop body's decision for one part
keep_part(text, institution_list) ==
    /\ ~(Len(text) < MinPartLen \/ fullmatch_digits(text))
    /\ \/ any_in(institution_list, text)
       \/ any_in(INSTITUTION_KEYWORDS, text)

RECURSIVE filter_parts(_, _)
filter_parts(parts, institution_list) ==
    IF parts = <<>> THEN <<>>
    ELSE LET text == normalize_text(Head(parts))
             rest == filter_parts(Tail(parts), institution_list)
         IN  IF keep_part(text, institution_list) THEN <<text>> \o rest ELSE rest

split_affiliations(raw, institution_list) ==
    dict_fromkeys(filter_parts(str_split(raw, <<";">>), institution_list))

\* match_institution with `inst in text` in place of the \b...\b search
match_institution_substring(text, institution_list) ==
    LET t == normalize_text(text)
    IN  \E i \in 1..Len(institution_list) : str_in(institution_list[i], t)

match_institution(text, institution_list) ==
    LET t == normalize_text(text)
    IN  \E i \in 1..Len(institution_list) : search_whole_word(institution_list[i], t)


-----------------------------------------------------------------------------
(* Inputs: strings built by concatenating at most n pieces                  *)

RECURSIVE Concats(_, _)
Concats(pieces, n) ==
    IF n = 0 THEN {<<>>}
    ELSE LET shorter == Concats(pieces, n - 1)
         IN  shorter \cup {p \o s : p \in pieces, s \in shorter}

MaxPieces == 4

AffPieces == {
    <<"M","a","y","o"," ","L","a","b">>,
    <<"T","o","k","y","o">>,
    <<"1","2","3","4","5">>,
    <<" ">>, <<";">>, <<",">>, <<".">> }

\* raw lines of the "Renowned Institutions" text area
InstitutionInputs == {
    << <<"M","a","y","o">> >>,
    << <<" ","M","a","y","o"," ">>, <<" "," ">>, <<"1","2","3","4","5">> >> }

-----------------------------------------------------------------------------
(* SpecSplit: one call of split_affiliations                                *)

InitSplit ==
    /\ pc = "call"
    /\ raw_aff \in Concats(AffPieces, MaxPieces)
    /\ \E lines \in InstitutionInputs : institutions = config_list(lines)
    /\ aff_parts = <<>>
    /\ journals = <<>> /\ summary_institutions = <<>> /\ hot_keywords = <<>>
    /\ art = <<>> /\ scored = <<>> /\ id_list = 0 /\ response = "None"
    /\ root = <<>> /\ visited = 0 /\ parsed_ok = 0 /\ parsed_fail = 0
    /\ records = <<>> /\ df = <<>> /\ messages = <<>> /\ tables = <<>>

SplitCall ==
    /\ pc = "call"
    /\ aff_parts' = split_affiliations(raw_aff, institutions)
    /\ pc' = "returned"
    /\ UNCHANGED <<journals, institutions, summary_institutions, hot_keywords,
                   raw_aff, art, scored, id_list, response, root, visited,
                   parsed_ok, parsed_fail, records, df, messages, tables>>

NextSplit == SplitCall

SpecSplit == InitSplit /\ [][NextSplit]_vars

-----------------------------------------------------------------------------
(* C5                                                                       *)

\* the <<first, last>> index pairs of the maximal segments of s that hold no
\* character of delims (last = first - 1 for an empty segment)
Segments(s, delims) ==
    {ij \in (1..(Len(s) + 1)) \X (0..Len(s)) :
        /\ ij[2] >= ij[1] - 1
        /\ \A k \in ij[1]..ij[2] : s[k] \notin delims
        /\ (ij[1] = 1 \/ s[ij[1] - 1] \in delims)
        /\ (ij[2] = Len(s) \/ s[ij[2] + 1] \in delims)}

SegText(s, ij) == normalize_text(SubSeq(s, ij[1], ij[2]))

TooShortOrNumeric(t) ==
    Len(t) < 5 \/ (t # <<>> /\ \A i \in 1..Len(t) : t[i] \in DigitSet)

NamesInstitution(t) ==
    \/ \E i \in 1..Len(institutions) : str_in(institutions[i], t)
    \/ \E i \in 1..Len(INSTITUTION_KEYWORDS) : str_in(INSTITUTION_KEYWORDS[i], t)

NoDuplicates(xs) == \A i, j \in 1..Len(xs) : xs[i] = xs[j] => i = j

\* position of the first segment of s (under delims) whose text is t
FirstSeen(s, delims, t) ==
    LET at == {ij[1] : ij \in {x \in Segments(s, delims) : SegText(s, x) = t}}
    IN  CHOOSE a \in at : \A b \in at : a <= b

InFirstSeenOrder(xs, s, delims) ==
    \A i, j \in 1..Len(xs) :
        i < j => FirstSeen(s, delims, xs[i]) < FirstSeen(s, delims, xs[j])

\* the tokens split_affiliations must return when it splits on delims and
\* keeps the parts Kept(t) accepts
TokensAre(delims, Kept(_)) ==
    /\ \A ij \in Segments(raw_aff, delims) :
           Kept(SegText(raw_aff, ij)) =>
               \E i \in 1..Len(aff_parts) : aff_parts[i] = SegText(raw_aff, ij)
    /\ \A i \in 1..Len(aff_parts) :
           \E ij \in Segments(raw_aff, delims) :
               /\ aff_parts[i] = SegText(raw_aff, ij)
               /\ Kept(aff_parts[i])
    /\ NoDuplicates(aff_parts)
    /\ InFirstSeenOrder(aff_parts, raw_aff, delims)

KeptAsClaimed(t) == ~TooShortOrNumeric(t)
KeptByCode(t) == ~TooShortOrNumeric(t) /\ NamesInstitution(t)

\* C5 as stated: split_affiliations splits on ';', ',' and '.', drops the parts
\* that are shorter than 5 characters or purely numeric, keeps every other
\* part, and returns the tokens without duplicates in first-seen order.
C5_AsClaimed ==
    pc = "returned" => TokensAre({";", ",", "."}, KeptAsClaimed)

\* C5 amended: split_affiliations splits on ';' only, normalizes each part,
\* drops the parts shorter than 5 characters or purely numeric and also the
\* parts that contain neither a configured institution nor an
\* institution-indicator keyword, keeps every other part, and returns the
\* tokens without duplicates in first-seen order.
C5_SplitOnSemicolonKeepsInstitutionLike ==
    pc = "returned" => TokensAre({";"}, KeptByCode)

\* a call that kept a part with a ',' in it (the code did not split there) and
\* dropped a part of 5 or more characters, not numeric, that names no institution
C5_Witness ==
    /\ pc = "returned"
    /\ \E i \in 1..Len(aff_parts) : str_in(<<",">>, aff_parts[i])
    /\ \E ij \in Segments(raw_aff, {";"}) :
           LET t == SegText(raw_aff, ij)
           IN  ~TooShortOrNumeric(t) /\ ~NamesInstitution(t)

-----------------------------------------------------------------------------
(* Scoring, lines 145-162.  A PubmedArticle element is a record            *)
(*   journal_title  text of Journal/Title ("" when absent)                  *)
(*   pub_types      texts of the PublicationType elements (<<>> for a None  *)
(*                  or empty text: `pt.text or ""` and `if pt.text` treat   *)
(*                  both alike)                                             *)
(*   n_authors      number of Author elements                               *)
(*   affiliations   texts of the AffiliationInfo/Affiliation elements       *)
(*   title          text of ArticleTitle                                    *)
(*   grant_list     whether a GrantList element is present                  *)
(*   malformed      whether extraction of the element raises                *)

valued == {
    <<"r","a","n","d","o","m","i","z","e","d"," ","c","o","n","t","r","o","l","l","e","d"," ","t","r","i","a","l">>,
    <<"s","y","s","t","e","m","a","t","i","c"," ","r","e","v","i","e","w">>,
    <<"m","e","t","a","-","a","n","a","l","y","s","i","s">>,
    <<"g","u","i","d","e","l","i","n","e">>,
    <<"p","r","a","c","t","i","c","e"," ","g","u","i","d","e","l","i","n","e">> }

\* line 154: len(article.findall(".//Author")) >= 5
MinAuthors == 5

\* hit with reasons.insert(0, r) in place of reasons.append(r)
hit_prepend(acc, w, r) == [score |-> acc.score + w, reasons |-> <<r>> \o acc.reasons]

\* score += w; reasons.append(r)
hit(acc, w, r) == [score |-> acc.score + w, reasons |-> Append(acc.reasons, r)]

\* "; ".join(reasons), the reasons being Python str literals
RECURSIVE join_reasons(_)
join_reasons(reasons) ==
    IF reasons = <<>> THEN ""
    ELSE IF Len(reasons) = 1 THEN reasons[1]
    ELSE reasons[1] \o "; " \o join_reasons(Tail(reasons))

institution_rule(parts) ==
    \E i \in 1..Len(parts) : match_institution(parts[i], institutions)

score_article(article, parts, title_text) ==
    LET s0 == [score |-> 0, reasons |-> <<>>]
        journal == str_lower(article.journal_title)
        s1 == IF any_in(journals, journal)
              THEN hit(s0, 2, "High-impact journal (+2)") ELSE s0
        s2 == IF \E i \in 1..Len(article.pub_types) :
                     str_lower(article.pub_types[i]) \in valued
              THEN hit(s1, 2, "Valued publication type (+2)") ELSE s1
        s3 == IF article.n_authors >= MinAuthors
              THEN hit(s2, 1, "Multiple authors (+1)") ELSE s2
        s4 == IF institution_rule(parts)
              THEN hit(s3, 1, "Prestigious institution (+1)") ELSE s3
        s5 == IF any_in(hot_keywords, title_text)
              THEN hit(s4, 2, "Hot keyword in title (+2)") ELSE s4
        s6 == IF article.grant_list
              THEN hit(s5, 2, "Has research funding (+2)") ELSE s5
    IN  <<s6.score, join_reasons(s6.reasons)>>

\* lines 222-223: raw_affs = [a.text for a in ... if a.text]; "; ".join(raw_affs)
aff_text_of(article) ==
    str_join(SelectSeq(article.affiliations, LAMBDA a : a # <<>>), <<";", " ">>)

-----------------------------------------------------------------------------
(* SpecScore: the extraction and scoring of one element, lines 217-224, 286 *)

MaxAffPieces == 3

ScoreAffPieces == { <<"M","a","y","o"," ">>, <<".">>, <<"C","l","i","n","i","c">> }

ScoreAffs == Concats(ScoreAffPieces, MaxAffPieces)

\* a second Affiliation element: one with no text, or "Mayo Clinic"
SecondAffs == { <<>>, <<"M","a","y","o"," ","C","l","i","n","i","c">> }

ScoreInstitutionInputs == {
    << <<"M","a","y","o">> >>,
    << <<"m","a","y","o"," ","c","l","i","n","i","c">>, <<"M","A","Y","O">> >>,
    << <<"M","a","y","o"," ",".">> >> }

ScoreArticles ==
    [ journal_title : { <<"T","h","e"," ","L","a","n","c","e","t">>, <<"G","u","t">> },
      pub_types     : { <<>>,
                        << <<"G","u","i","d","e","l","i","n","e","s">> >>,
                        << <<"G","u","i","d","e","l","i","n","e","s">>,
                           <<"G","u","i","d","e","l","i","n","e">> >> },
      n_authors     : {MinAuthors - 1, MinAuthors},
      affiliations  : {<<>>} \cup {<<a>> : a \in ScoreAffs}
                             \cup {<<a, b>> : a \in ScoreAffs, b \in SecondAffs},
      title         : { <<"R","a","i","n">>, <<"G","u","t">> },
      grant_list    : BOOLEAN,
      malformed     : {FALSE} ]

InitScore ==
    /\ pc = "call"
    /\ art \in ScoreArticles
    /\ \E lines \in ScoreInstitutionInputs : institutions = config_list(lines)
    /\ journals = config_list(<< <<"L","a","n","c","e","t">>, <<"J","A","M","A">> >>)
    /\ hot_keywords = config_list(<< <<"g","l","p","-","1">>, <<"A","I">> >>)
    /\ summary_institutions = <<>>
    /\ raw_aff = <<>> /\ aff_parts = <<>> /\ scored = <<>>
    /\ id_list = 0 /\ response = "None"
    /\ root = <<>> /\ visited = 0 /\ parsed_ok = 0 /\ parsed_fail = 0
    /\ records = <<>> /\ df = <<>> /\ messages = <<>> /\ tables = <<>>

ScoreCall ==
    /\ pc = "call"
    /\ raw_aff' = aff_text_of(art)
    /\ aff_parts' = split_affiliations(raw_aff', institutions)
    /\ scored' = score_article(art, aff_parts', normalize_text(art.title))
    /\ pc' = "returned"
    /\ UNCHANGED <<journals, institutions, summary_institutions, hot_keywords,
                   art, id_list, response, root, visited,
                   parsed_ok, parsed_fail, records, df, messages, tables>>

NextScore == ScoreCall

SpecScore == InitScore /\ [][NextScore]_vars

-----------------------------------------------------------------------------
(* C3, C4                                                                   *)

JournalRule ==
    \E i \in 1..Len(journals) : str_in(journals[i], str_lower(art.journal_title))
PubTypeRule ==
    \E i \in 1..Len(art.pub_types) : str_lower(art.pub_types[i]) \in valued
AuthorRule == art.n_authors >= 5
\* a word boundary lies between two neighbouring places of t exactly one of
\* which holds a word character (a place outside t holds none)
WordAt(t, k) == k \in 1..Len(t) /\ IsWordChar(t[k])
\* t holds inst as a whole word: an occurrence of inst in t with a word boundary
\* at its start and one at its end
HoldsWholeWord(t, inst) ==
    \E i \in 1..(Len(t) - Len(inst) + 1) :
        LET j == i + Len(inst) - 1
        IN  /\ \A k \in i..j : t[k] = inst[k - i + 1]
            /\ WordAt(t, i - 1) # WordAt(t, i)
            /\ WordAt(t, j) # WordAt(t, j + 1)
InstitutionRule ==
    \E k \in 1..Len(aff_parts) : \E i \in 1..Len(institutions) :
        HoldsWholeWord(aff_parts[k], institutions[i])
KeywordRule ==
    \E i \in 1..Len(hot_keywords) : str_in(hot_keywords[i], normalize_text(art.title))
FundingRule == art.grant_list

\* the rules in their fixed order: <<triggered, weight, reason>>
Rules == <<
    <<JournalRule,     2, "High-impact journal (+2)">>,
    <<PubTypeRule,     2, "Valued publication type (+2)">>,
    <<AuthorRule,      1, "Multiple authors (+1)">>,
    <<InstitutionRule, 1, "Prestigious institution (+1)">>,
    <<KeywordRule,     2, "Hot keyword in title (+2)">>,
    <<FundingRule,     2, "Has research funding (+2)">> >>

Triggered == SelectSeq(Rules, LAMBDA r : r[1])

RECURSIVE SumWeights(_)
SumWeights(rs) == IF rs = <<>> THEN 0 ELSE Head(rs)[2] + SumWeights(Tail(rs))

RECURSIVE JoinedReasons(_)
JoinedReasons(rs) ==
    IF rs = <<>> THEN ""
    ELSE Head(rs)[3] \o (IF Len(rs) > 1 THEN "; " ELSE "") \o JoinedReasons(Tail(rs))

\* C3: score_article returns as reasons exactly the triggered rules, each once,
\* in the order journal, publication type, author count, institution, keyword,
\* funding, and as score the sum of their weights (2, 2, 1, 1, 2, 2); the score
\* is within 0..10, is 10 with six reasons when all six rules trigger, and is 0
\* with no reason when none does.
C3_ScoreIsSumOfTriggeredRules ==
    pc = "returned" =>
        LET triggered == Triggered
        IN  /\ scored[2] = JoinedReasons(triggered)
            /\ scored[1] = SumWeights(triggered)
            /\ scored[1] \in 0..10
            /\ (Len(triggered) = 6 => scored[1] = 10)
            /\ (Len(triggered) = 0 => scored[1] = 0 /\ scored[2] = "")

\* all six rules triggered
C3_Witness ==
    /\ pc = "returned"
    /\ Len(Triggered) = 6
    /\ scored[1] = 10

\* the weight the institution rule added to the score: the score less the
\* weights of the other five rules
InstitutionWeight ==
    scored[1] - SumWeights(SelectSeq(Triggered,
                    LAMBDA r : r[3] # "Prestigious institution (+1)"))

\* C4: the institution rule adds 1 exactly when some normalized affiliation
\* token of the record holds some configured institution as a whole word, and
\* adds it once however many tokens or institutions match.
C4_InstitutionRuleOnce ==
    pc = "returned" =>
        InstitutionWeight = (IF InstitutionRule THEN 1 ELSE 0)

\* two different tokens of one record both hold a configured institution as a
\* whole word, and the rule added 1
C4_Witness ==
    /\ pc = "returned"
    /\ \E k1, k2 \in 1..Len(aff_parts) :
           /\ k1 # k2
           /\ \E i \in 1..Len(institutions) :
                  /\ HoldsWholeWord(aff_parts[k1], institutions[i])
                  /\ HoldsWholeWord(aff_parts[k2], institutions[i])
    /\ InstitutionWeight = 1

-----------------------------------------------------------------------------
(* The "Run PubMed Search" handler, lines 180-397                           *)

\* lines 216-231, 286-306: the dict appended for one element (the columns the
\* summaries and the status message read)
extract(article) ==
    LET aff_text == aff_text_of(article)
        parts    == split_affiliations(aff_text, institutions)
        pub_types == SelectSeq(article.pub_types, LAMBDA t : t # <<>>)
        result   == score_article(article, parts, normalize_text(article.title))
    IN  [ Title        |-> article.title,
          Journal      |-> article.journal_title,
          PubTypes     |-> str_join(pub_types, <<";", " ">>),
          Affiliations |-> aff_text,
          AffParts     |-> parts,
          Score        |-> result[1],
          Why          |-> result[2] ]

\* line 313: sort_values("Score", ascending=False); rows of equal score keep
\* their order (no summary depends on the order of ties)
RECURSIVE sort_values(_)
sort_values(rows) ==
    IF rows = <<>> THEN <<>>
    ELSE LET front == sort_values(SubSeq(rows, 1, Len(rows) - 1))
             last  == rows[Len(rows)]
             k     == Cardinality({i \in 1..Len(front) : front[i].Score >= last.Score})
         IN  SubSeq(front, 1, k) \o <<last>> \o SubSeq(front, k + 1, Len(front))

\* collections.Counter: a function from the keys counted so far to their counts
counter_get(c, key) == IF key \in DOMAIN c THEN c[key] ELSE 0

counter_add(c, keys) ==
    [k \in DOMAIN c \cup keys |-> counter_get(c, k) + (IF k \in keys THEN 1 ELSE 0)]

RECURSIVE counter_add_each(_, _)
counter_add_each(c, keyseq) ==
    IF keyseq = <<>> THEN c
    ELSE counter_add_each(counter_add(c, {Head(keyseq)}), Tail(keyseq))

Others == <<"O","t","h","e","r","s">>

\* inst == p in place of inst in p
inst_matches_part_exact(inst, p) == inst = p

\* lines 343, 361: inst in p
inst_matches_part(inst, p) == str_in(inst, p)

\* summary_keys without the else branch of lines 347-348, 365-366
summary_keys_no_others(parts, institution_list) ==
    LET match == SelectSeq(institution_list,
                     LAMBDA inst : \E k \in 1..Len(parts) : inst_matches_part(inst, parts[k]))
    IN  {match[i] : i \in 1..Len(match)}

\* lines 343-348, 361-366: the keys one row increments
summary_keys(parts, institution_list) ==
    LET match == SelectSeq(institution_list,
                     LAMBDA inst : \E k \in 1..Len(parts) : inst_matches_part(inst, parts[k]))
    IN  IF match # <<>> THEN {match[i] : i \in 1..Len(match)} ELSE {Others}

\* lines 341-348, 359-366: the counter, and per row of df the keys it incremented
RECURSIVE institution_summary(_, _)
institution_summary(rows, institution_list) ==
    IF rows = <<>> THEN [counter |-> <<>>, hits |-> <<>>]
    ELSE LET front == institution_summary(SubSeq(rows, 1, Len(rows) - 1), institution_list)
             keys  == summary_keys(rows[Len(rows)].AffParts, institution_list)
         IN  [counter |-> counter_add(front.counter, keys),
              hits    |-> Append(front.hits, keys)]

\* line 335: df['Journal'].value_counts()
RECURSIVE journal_counts(_)
journal_counts(rows) ==
    IF rows = <<>> THEN <<>>
    ELSE counter_add(journal_counts(Tail(rows)), {Head(rows).Journal})

\* line 377: df["Publication Types"].str.split("; ").explode().value_counts()
RECURSIVE pub_type_counts(_)
pub_type_counts(rows) ==
    IF rows = <<>> THEN <<>>
    ELSE counter_add_each(pub_type_counts(Tail(rows)),
                          str_split(Head(rows).PubTypes, <<";", " ">>))

\* lines 383-388
RECURSIVE hot_keyword_counts(_)
hot_keyword_counts(rows) ==
    IF rows = <<>> THEN <<>>
    ELSE LET t == normalize_text(Head(rows).Title)
         IN  counter_add_each(hot_keyword_counts(Tail(rows)),
                              SelectSeq(hot_keywords, LAMBDA kw : str_in(kw, t)))

message(kind, text, args) == [kind |-> kind, text |-> text, args |-> args]

-----------------------------------------------------------------------------
(* Spec: one run of the handler                                             *)

MaxBatch == 2

RunArticles ==
    [ journal_title : { <<"T","h","e"," ","L","a","n","c","e","t">> },
      pub_types     : { <<>>,
                        << <<"R","e","v","i","e","w">>, <<>>,
                           <<"G","u","i","d","e","l","i","n","e">> >> },
      n_authors     : {MinAuthors},
      affiliations  : { <<>>,
                        << <<"M","a","y","o"," ","C","l","i","n","i","c">>,
                           <<"M","a","y","o"," ","L","a","b">> >>,
                        << <<"N","i","h","o","n"," ","U","n","i","v">> >>,
                        << <<"M","a","y","o"," ","C","l","i","n","i","c",","," ","N","I","H">> >> },
      title         : { <<"R","a","i","n"," ","a","n","d"," ","G","L","P","-","1">>,
                        <<"G","u","t">> },
      grant_list    : {FALSE},
      malformed     : {FALSE} ]
    \cup
    { [ journal_title |-> <<>>, pub_types |-> <<>>, n_authors |-> 0,
        affiliations |-> <<>>, title |-> <<>>, grant_list |-> FALSE,
        malformed |-> TRUE ] }

\* the raw lines of the text areas
RunConfigs == {
    [ journals     |-> << <<"L","a","n","c","e","t">>, <<"J","A","M","A">> >>,
      institutions |-> << <<"M","a","y","o">>, <<"N","I","H">> >>,
      summary      |-> << <<"H","a","r","v","a","r","d">> >>,
      keywords     |-> << <<"a","i">>, <<"g","l","p","-","1">> >> ],
    [ journals     |-> << <<"L","a","n","c","e","t">> >>,
      institutions |-> << <<"N","I","H">>, <<" ","n","i","h"," ">>, <<" ">>,
                          <<"H","a","r","v","a","r","d">> >>,
      summary      |-> << <<"M","a","y","o"," ","C","l","i","n","i","c">>,
                          <<"N","i","h","o","n"," ","U","n","i","v","e","r","s","i","t","y">> >>,
      keywords     |-> << <<"A","I">>, <<"a","i">> >> ] }

RECURSIVE SeqsUpTo(_, _)
SeqsUpTo(S, n) ==
    IF n = 0 THEN {<<>>}
    ELSE LET shorter == SeqsUpTo(S, n - 1)
         IN  shorter \cup {Append(q, x) : q \in shorter, x \in S}

Init ==
    /\ pc = "start"
    /\ \E c \in RunConfigs :
           /\ journals = config_list(c.journals)
           /\ institutions = config_list(c.institutions)
           /\ summary_institutions = config_list(c.summary)
           /\ hot_keywords = config_list(c.keywords)
    /\ raw_aff = <<>> /\ aff_parts = <<>> /\ art = <<>> /\ scored = <<>>
    /\ id_list = 0 /\ response = "None"
    /\ root = <<>> /\ visited = 0 /\ parsed_ok = 0 /\ parsed_fail = 0
    /\ records = <<>> /\ df = <<>> /\ messages = <<>> /\ tables = <<>>

\* lines 183-195
ESearch ==
    /\ pc = "start"
    /\ \E raised \in BOOLEAN, n \in 0..MaxBatch :
           /\ raised => n = 0
           /\ id_list' = n
           /\ LET m1 == IF raised
                        THEN Append(messages, message("error", "ESearch failed", <<>>))
                        ELSE messages
              IN  IF n = 0
                  THEN /\ messages' = Append(m1, message("warning", "No PMIDs found for this query.", <<>>))
                       /\ pc' = "done"
                  ELSE /\ messages' = m1
                       /\ pc' = "efetch"
    /\ UNCHANGED <<journals, institutions, summary_institutions, hot_keywords,
                   raw_aff, aff_parts, art, scored, response, root, visited,
                   parsed_ok, parsed_fail, records, df, tables>>

\* lines 198-209
EFetch ==
    /\ pc = "efetch"
    /\ \E raised \in BOOLEAN :
           IF raised
           THEN /\ response' = "None"
                /\ messages' = Append(messages, message("error", "EFetch failed", <<>>))
                /\ pc' = "sort"
           ELSE /\ response' = "content"
                /\ messages' = messages
                /\ pc' = "parse"
    /\ parsed_ok' = 0 /\ parsed_fail' = 0 /\ records' = <<>>
    /\ UNCHANGED <<journals, institutions, summary_institutions, hot_keywords,
                   raw_aff, aff_parts, art, scored, id_list, root, visited,
                   df, tables>>

\* lines 211-214, 310-311: ET.fromstring and root.findall(".//PubmedArticle")
Parse ==
    /\ pc = "parse"
    /\ \E raised \in BOOLEAN :
           IF raised
           THEN /\ root' = <<>>
                /\ messages' = Append(messages,
                                   message("error", "Failed to parse XML from PubMed.", <<>>))
                /\ pc' = "sort"
           ELSE /\ root' \in SeqsUpTo(RunArticles, id_list)
                /\ messages' = messages
                /\ pc' = IF root' = <<>> THEN "sort" ELSE "loop"
    /\ visited' = 0
    /\ UNCHANGED <<journals, institutions, summary_institutions, hot_keywords,
                   raw_aff, aff_parts, art, scored, id_list, response,
                   parsed_ok, parsed_fail, records, df, tables>>

\* the loop with the try around the whole for statement: the first element
\* that raises ends the loop
ProcessRecord_StopsAtFailure ==
    /\ pc = "loop"
    /\ visited < Len(root)
    /\ LET article == root[visited + 1]
       IN  IF article.malformed
           THEN /\ parsed_fail' = parsed_fail + 1
                /\ pc' = "sort"
                /\ UNCHANGED <<records, parsed_ok>>
           ELSE /\ records' = Append(records, extract(article))
                /\ parsed_ok' = parsed_ok + 1
                /\ pc' = IF visited + 1 = Len(root) THEN "sort" ELSE "loop"
                /\ UNCHANGED parsed_fail
    /\ visited' = visited + 1
    /\ UNCHANGED <<journals, institutions, summary_institutions, hot_keywords,
                   raw_aff, aff_parts, art, scored, id_list, response, root,
                   df, messages, tables>>

\* lines 214-309: one iteration of the for loop
ProcessRecord ==
    /\ pc = "loop"
    /\ visited < Len(root)
    /\ LET article == root[visited + 1]
       IN  IF article.malformed
           THEN /\ parsed_fail' = parsed_fail + 1
                /\ UNCHANGED <<records, parsed_ok>>
           ELSE /\ records' = Append(records, extract(article))
                /\ parsed_ok' = parsed_ok + 1
                /\ UNCHANGED parsed_fail
    /\ visited' = visited + 1
    /\ pc' = IF visited' = Len(root) THEN "sort" ELSE "loop"
    /\ UNCHANGED <<journals, institutions, summary_institutions, hot_keywords,
                   raw_aff, aff_parts, art, scored, id_list, response, root,
                   df, messages, tables>>

\* lines 313-314.  pd.DataFrame([]) has no "Score" column: sort_values raises
\* KeyError, nothing catches it, and the run ends before st.success
SortAndReport ==
    /\ pc = "sort"
    /\ IF records = <<>>
       THEN /\ pc' = "crashed"
            /\ UNCHANGED <<df, messages>>
       ELSE /\ df' = sort_values(records)
            /\ messages' = Append(messages,
                               message("success", "Found, parsed, failed",
                                       <<id_list, parsed_ok, parsed_fail>>))
            /\ pc' = "display"
    /\ UNCHANGED <<journals, institutions, summary_institutions, hot_keywords,
                   raw_aff, aff_parts, art, scored, id_list, response, root,
                   visited, parsed_ok, parsed_fail, records, tables>>

\* lines 316-397 (df is never empty here: an empty df did not pass line 313)
Display ==
    /\ pc = "display"
    /\ IF df # <<>>
       THEN /\ tables' =
                 LET ren == institution_summary(df, institutions)
                     sel == institution_summary(df, summary_institutions)
                 IN  [ jc          |-> journal_counts(df),
                       ren_counter |-> ren.counter,
                       ren_hits    |-> ren.hits,
                       sel_counter |-> sel.counter,
                       sel_hits    |-> sel.hits,
                       pt          |-> pub_type_counts(df),
                       hk          |-> hot_keyword_counts(df) ]
            /\ messages' = messages
       ELSE /\ tables' = tables
            /\ messages' = Append(messages,
                               message("warning", "No valid articles to display.", <<>>))
    /\ pc' = "done"
    /\ UNCHANGED <<journals, institutions, summary_institutions, hot_keywords,
                   raw_aff, aff_parts, art, scored, id_list, response, root,
                   visited, parsed_ok, parsed_fail, records, df>>

Next == ESearch \/ EFetch \/ Parse \/ ProcessRecord \/ SortAndReport \/ Display

Spec == Init /\ [][Next]_vars

-----------------------------------------------------------------------------
(* C1, C2: the batch loop and the status message                            *)

AfterLoop == pc \in {"sort", "display", "done", "crashed"}

\* the elements the loop has taken whose extraction did not raise
GoodVisited == SelectSeq(SubSeq(root, 1, visited), LAMBDA a : ~a.malformed)
BadVisited  == SelectSeq(SubSeq(root, 1, visited), LAMBDA a : a.malformed)

\* C1: a record whose extraction raises never aborts the batch: the loop takes
\* all N elements, parsed_ok + parsed_fail = N at its end, and the scored
\* collection holds exactly the parsed_ok records that did not raise, none of
\* the failing ones.
C1_FailuresAreIsolated ==
    /\ parsed_ok + parsed_fail = visited
    /\ parsed_fail = Len(BadVisited)
    /\ Len(records) = parsed_ok
    /\ Len(GoodVisited) = Len(records)
    /\ \A i \in 1..Len(records) : records[i] = extract(GoodVisited[i])
    /\ AfterLoop => visited = Len(root)

\* the first element raised, a later one was scored, and the loop has ended
C1_Witness ==
    /\ AfterLoop
    /\ Len(root) >= 2
    /\ root[1].malformed
    /\ parsed_fail >= 1
    /\ parsed_ok >= 1

StatusReported ==
    \E i \in 1..Len(messages) :
        /\ messages[i].kind = "success"
        /\ messages[i].args = <<id_list, parsed_ok, parsed_fail>>

\* C2: whenever identifiers were found, the run reports the status triple
\* (pmids_found, parsed_ok, parsed_fail), also when no record was scored: a run
\* that has ended having found identifiers has reported it.
C2_StatusAlwaysReported ==
    (pc \in {"done", "crashed"} /\ id_list > 0) => StatusReported

-----------------------------------------------------------------------------
(* C6 - C10: the summaries                                                  *)

Summarised == pc = "done" /\ df # <<>>

Rows == 1..Len(df)

Count(S) == Cardinality(S)

\* sub occurs in t
Occurs(sub, t) ==
    \E i \in 1..(Len(t) - Len(sub) + 1) : \A k \in 1..Len(sub) : t[i + k - 1] = sub[k]

RowHoldsWholeWord(i, inst) ==
    \E k \in 1..Len(df[i].AffParts) : HoldsWholeWord(df[i].AffParts[k], inst)

RowHoldsSubstring(i, inst) ==
    \E k \in 1..Len(df[i].AffParts) : Occurs(inst, df[i].AffParts[k])

\* C6: in both by-institution summaries the count of every configured
\* institution is the number of scored records with at least one normalized
\* affiliation token holding that institution at a word boundary.
C6_CountsAreWholeWordMatches ==
    Summarised =>
        /\ \A n \in 1..Len(institutions) :
               counter_get(tables.ren_counter, institutions[n])
                   = Count({i \in Rows : RowHoldsWholeWord(i, institutions[n])})
        /\ \A n \in 1..Len(summary_institutions) :
               counter_get(tables.sel_counter, summary_institutions[n])
                   = Count({i \in Rows : RowHoldsWholeWord(i, summary_institutions[n])})

\* the rows that the summary over institution_list counts under no institution
RowsMatchingNone(institution_list) ==
    {i \in Rows : \A n \in 1..Len(institution_list) :
                      ~RowHoldsSubstring(i, institution_list[n])}

OthersIsMissCount(counter, institution_list) ==
    /\ counter_get(counter, Others) = Count(RowsMatchingNone(institution_list))
    /\ Others \in DOMAIN counter <=> RowsMatchingNone(institution_list) # {}

\* C7 as stated: the renowned-institutions table never holds an "Others"
\* bucket, while the selected-institutions table counts under "Others" every
\* record that matches none of its institutions.
C7_AsClaimed ==
    Summarised =>
        /\ Others \notin DOMAIN tables.ren_counter
        /\ OthersIsMissCount(tables.sel_counter, summary_institutions)

\* C7 amended: both tables, the renowned-institutions one and the
\* selected-institutions one, count under "Others" every record none of whose
\* affiliation tokens contains one of the table's configured institutions.
C7_BothSummariesCountOthers ==
    Summarised =>
        /\ OthersIsMissCount(tables.ren_counter, institutions)
        /\ OthersIsMissCount(tables.sel_counter, summary_institutions)

\* a record that holds no renowned institution was scored: the renowned table
\* holds "Others", and so does the selected table
C7_Witness ==
    /\ Summarised
    /\ RowsMatchingNone(institutions) # {}
    /\ Others \in DOMAIN tables.ren_counter
    /\ Others \in DOMAIN tables.sel_counter

RECURSIVE SumCounts(_, _)
SumCounts(c, keys) ==
    IF keys = {} THEN 0
    ELSE LET k == CHOOSE x \in keys : TRUE
         IN  c[k] + SumCounts(c, keys \ {k})

RECURSIVE LabelOccurrences(_)
LabelOccurrences(articles) ==
    IF articles = <<>> THEN 0
    ELSE Len(SelectSeq(Head(articles).pub_types, LAMBDA t : t # <<>>))
             + LabelOccurrences(Tail(articles))

\* C8: the counts of the by-publication-type table sum to the number of
\* non-empty publication-type labels over all scored records, and a record
\* with an empty publication-type string adds no bucket and no count.
C8_PubTypeCountsSumToLabels ==
    Summarised =>
        /\ SumCounts(tables.pt, DOMAIN tables.pt) = LabelOccurrences(GoodVisited)
        /\ <<>> \notin DOMAIN tables.pt

\* C9: for every configured keyword list, duplicates included, the count of a
\* keyword is the number of scored records whose normalized title contains it.
C9_KeywordCountsAreRecordCounts ==
    Summarised =>
        \A n \in 1..Len(hot_keywords) :
            counter_get(tables.hk, hot_keywords[n])
                = Count({i \in Rows : Occurs(hot_keywords[n], normalize_text(df[i].Title))})

ReasonLabels == <<
    "High-impact journal (+2)", "Valued publication type (+2)",
    "Multiple authors (+1)", "Prestigious institution (+1)",
    "Hot keyword in title (+2)", "Has research funding (+2)" >>

RECURSIVE JoinChosen(_, _)
JoinChosen(chosen, from) ==
    IF from > Len(ReasonLabels) THEN ""
    ELSE LET rest == JoinChosen(chosen, from + 1)
         IN  IF from \notin chosen THEN rest
             ELSE IF rest = "" THEN ReasonLabels[from]
             ELSE ReasonLabels[from] \o "; " \o rest

\* why is the "; "-joined list of some of the reasons, the n-th among them
IncludesReason(why, n) ==
    \E chosen \in SUBSET (1..Len(ReasonLabels)) :
        n \in chosen /\ why = JoinChosen(chosen, 1)

InstitutionKeys == {institutions[n] : n \in 1..Len(institutions)}

\* C10: every scored record whose reasons include "Prestigious institution
\* (+1)" is counted under at least one configured institution of the renowned
\* summary and not under its "Others"; and every scored record increments
\* either one or more institution buckets or "Others", never both, never
\* neither.
C10_ScoredInstitutionIsSummarised ==
    Summarised =>
        /\ Len(tables.ren_hits) = Len(df)
        /\ \A i \in Rows :
               LET keys == tables.ren_hits[i]
               IN  /\ IncludesReason(df[i].Why, 4) =>
                          keys # {} /\ keys \subseteq InstitutionKeys
                   /\ \/ keys = {Others}
                      \/ keys # {} /\ keys \subseteq InstitutionKeys
        /\ \A key \in DOMAIN tables.ren_counter :
               tables.ren_counter[key] = Count({i \in Rows : key \in tables.ren_hits[i]})

\* one scored record has the institution reason and an institution bucket,
\* another went to "Others"
C10_Witness ==
    /\ Summarised
    /\ \E i \in Rows : IncludesReason(df[i].Why, 4) /\ Others \notin tables.ren_hits[i]
    /\ \E j \in Rows : tables.ren_hits[j] = {Others}

=============================================================================
